---- MODULE Spec2Model ----
(***************************************************************************)
(* MILV Daily Productivity dashboards (src/app.py, src/rvu.py).            *)
(*                                                                         *)
(* Both scripts share load_data (a memoized spreadsheet loader) and a      *)
(* main that is re-run from top to bottom on every user interaction.       *)
(* Text is modelled as sequences of one-character strings so that strip,   *)
(* lower and title are computed, not assumed.                              *)
(***************************************************************************)
EXTENDS Integers, Sequences, FiniteSets, TLC

(***************************************************************************)
(* Text: str.strip, str.lower, str.title, str.contains(case=False)         *)
(***************************************************************************)
UpperChars == <<"A","B","C","D","E","F","G","H","I","J","K","L","M",
                "N","O","P","Q","R","S","T","U","V","W","X","Y","Z">>

LowerChars == <<"a","b","c","d","e","f","g","h","i","j","k","l","m",
                "n","o","p","q","r","s","t","u","v","w","x","y","z">>

Whitespace == {" ", "\t"}

IsUpper(c) == \E i \in DOMAIN UpperChars : UpperChars[i] = c

IsLower(c) == \E i \in DOMAIN LowerChars : LowerChars[i] = c

\* The characters that occur in the model's texts.
Alphabet ==
    {UpperChars[i] : i \in DOMAIN UpperChars}
        \cup {LowerChars[i] : i \in DOMAIN LowerChars}
        \cup Whitespace
        \cup {"0","1","2","3","4","5","6","7","8","9"}
        \cup {"/", "?", ".", ":", "-", "'"}

CasedOf == [c \in Alphabet |-> IsUpper(c) \/ IsLower(c)]

LowerOf ==
    [c \in Alphabet |->
        IF IsUpper(c)
        THEN LowerChars[CHOOSE i \in DOMAIN UpperChars : UpperChars[i] = c]
        ELSE c]

UpperOf ==
    [c \in Alphabet |->
        IF IsLower(c)
        THEN UpperChars[CHOOSE i \in DOMAIN LowerChars : LowerChars[i] = c]
        ELSE c]

IsCased(c) == CasedOf[c]

ToLower(c) == LowerOf[c]

ToUpper(c) == UpperOf[c]

\* str.lower(): every character lowered.
str_lower(s) == [i \in 1..Len(s) |-> ToLower(s[i])]

RECURSIVE lstrip(_)
lstrip(s) ==
    IF s = <<>> THEN <<>>
    ELSE IF Head(s) \in Whitespace THEN lstrip(Tail(s)) ELSE s

RECURSIVE rstrip(_)
rstrip(s) ==
    IF s = <<>> THEN <<>>
    ELSE IF s[Len(s)] \in Whitespace THEN rstrip(SubSeq(s, 1, Len(s) - 1)) ELSE s

\* str.strip(): leading and trailing whitespace removed, inner kept.
str_strip(s) == rstrip(lstrip(s))

\* str.title(): a cased character that follows a cased character is
\* lowered, any other cased character is uppercased.
str_title(s) ==
    [i \in 1..Len(s) |->
        IF i > 1 /\ IsCased(s[i - 1]) THEN ToLower(s[i]) ELSE ToUpper(s[i])]

\* str.contains(term, case=False) for a literal term.
str_contains(s, term) ==
    \E i \in 0..(Len(s) - Len(term)) :
        str_lower(SubSeq(s, i + 1, i + Len(term))) = str_lower(term)

(***************************************************************************)
(* Spreadsheet cells                                                       *)
(***************************************************************************)
Num(n) == [t |-> "num", v |-> n]

Str(s) == [t |-> "str", s |-> s]

\* A timestamp: day number d and time of day h (0 = midnight).
Ts(d, h) == [t |-> "ts", d |-> d, h |-> h]

NaN == [t |-> "nan"]

NaT == [t |-> "nat"]

\* pd.to_datetime(errors="coerce"): a timestamp stays, a number is read as
\* an offset from the epoch (day 0), text that is no date and blanks -> NaT.
to_datetime(c) ==
    CASE c.t = "ts" -> c
      [] c.t = "num" -> Ts(0, IF c.v = 0 THEN 0 ELSE 1)
      [] OTHER -> NaT

\* Series.dt.normalize(): time of day set to midnight, NaT stays NaT.
dt_normalize(c) == IF c.t = "ts" THEN Ts(c.d, 0) ELSE c

\* pd.to_numeric(errors="coerce"): a number stays, anything else -> NaN.
to_numeric(c) == IF c.t = "num" THEN c ELSE NaN

fillna0(c) == IF c.t = "nan" THEN Num(0) ELSE c

\* astype(str): text stays, a blank cell reads "nan".
astype_str(c) ==
    CASE c.t = "str" -> c.s
      [] c.t = "nan" -> <<"n", "a", "n">>
      [] OTHER -> <<"?">>

(***************************************************************************)
(* Constants of the scripts                                                *)
(***************************************************************************)
K_date == <<"d","a","t","e">>

K_author == <<"a","u","t","h","o","r">>

K_procedure == <<"p","r","o","c","e","d","u","r","e">>

K_points == <<"p","o","i","n","t","s">>

K_shift == <<"s","h","i","f","t">>

K_phd == <<"p","o","i","n","t","s","/","h","a","l","f"," ","d","a","y">>

K_prh == <<"p","r","o","c","e","d","u","r","e","/","h","a","l","f">>

REQUIRED_COLUMNS ==
    {K_date, K_author, K_procedure, K_points, K_shift, K_phd, K_prh}

(***************************************************************************)
(* Stored file and DataFrame                                               *)
(***************************************************************************)
\* What is at FILE_STORAGE_PATH: nothing, bytes that are no workbook, or a
\* workbook whose first sheet has header cells `columns` and data `rows`.
Absent == [kind |-> "absent"]

Corrupt == [kind |-> "corrupt"]

Xlsx(columns, rows) == [kind |-> "xlsx", columns |-> columns, rows |-> rows]

None == [kind |-> "None"]

DataFrame(columns, rows) == [kind |-> "df", columns |-> columns, rows |-> rows]

\* {col.lower(): col for col in df.columns}[key]: the position of the last
\* column whose lowered name is key.
col_map(columns, key) ==
    LET named(i) == Len(columns[i]) = Len(key) /\ str_lower(columns[i]) = key
    IN CHOOSE i \in DOMAIN columns :
          named(i) /\ \A j \in (i + 1)..Len(columns) : ~named(j)

SetCell(rows, j, F(_)) ==
    [i \in 1..Len(rows) |-> [rows[i] EXCEPT ![j] = F(rows[i][j])]]

\* df[date_col] = pd.to_datetime(df[date_col], errors="coerce").dt.normalize()
coerce_date(c) == dt_normalize(to_datetime(c))

\* Mutant of dropna: no subset, so a row with any null cell is dropped.
dropna_any(rows, j) ==
    LET keep(r) == \A k \in DOMAIN r : r[k] \notin {NaT, NaN} IN SelectSeq(rows, keep)

\* df.dropna(subset=[date_col], inplace=True)
dropna(rows, j) ==
    LET keep(r) == r[j] # NaT IN SelectSeq(rows, keep)

\* .apply(pd.to_numeric, errors="coerce").fillna(0)
coerce_numeric(c) == fillna0(to_numeric(c))

\* Mutant of format_author: the strip is left out.
format_author_unstripped(c) == Str(str_title(astype_str(c)))

\* .astype(str).str.strip().str.title()
format_author(c) == Str(str_title(str_strip(astype_str(c))))

\* df[numeric_cols] = df[numeric_cols].apply(...).fillna(0), column by column.
RECURSIVE coerce_numeric_cols(_, _)
coerce_numeric_cols(rows, js) ==
    IF js = {} THEN rows
    ELSE LET j == CHOOSE x \in js : TRUE
         IN coerce_numeric_cols(SetCell(rows, j, coerce_numeric), js \ {j})

\* The body of load_data: what one un-memoized call returns and the
\* st.error messages it shows.
load_data(f) ==
    IF f.kind # "xlsx"
    THEN [ret |-> None, errors |-> <<"error:exception">>]
    ELSE
      LET columns == [i \in 1..Len(f.columns) |-> str_strip(f.columns[i])]
          lower_columns == {str_lower(columns[i]) : i \in 1..Len(columns)}
          missing == {col \in REQUIRED_COLUMNS : col \notin lower_columns}
      IN IF missing # {}
         THEN [ret |-> None, errors |-> <<"error:missing_columns">>]
         ELSE
           LET date_col == col_map(columns, K_date)
               dated == dropna(SetCell(f.rows, date_col, coerce_date), date_col)
               numeric_cols ==
                   {col_map(columns, k) : k \in REQUIRED_COLUMNS \ {K_date, K_author}}
               numbered == coerce_numeric_cols(dated, numeric_cols)
               author_col == col_map(columns, K_author)
           IN [ret |-> DataFrame(columns, SetCell(numbered, author_col, format_author)),
               errors |-> <<>>]

(***************************************************************************)
(* DataFrame operations used by main                                       *)
(***************************************************************************)
\* Code point order of the characters that occur in the model.
OrdOf ==
    [c \in Alphabet |->
        CASE c = "\t" -> 9
          [] c = " " -> 32
          [] c = "'" -> 39
          [] c = "-" -> 45
          [] c = "." -> 46
          [] c = "/" -> 47
          [] c \in {"0","1","2","3","4","5","6","7","8","9"} ->
                48 + (CHOOSE n \in 0..9 : <<"0","1","2","3","4","5","6","7","8","9">>[n + 1] = c)
          [] c = ":" -> 58
          [] c = "?" -> 63
          [] IsUpper(c) -> 64 + (CHOOSE i \in DOMAIN UpperChars : UpperChars[i] = c)
          [] OTHER -> 96 + (CHOOSE i \in DOMAIN LowerChars : LowerChars[i] = c)]

Ord(c) == OrdOf[c]

\* Python's str <: lexicographic by code point, a proper prefix first.
RECURSIVE StrLess(_, _)
StrLess(a, b) ==
    IF b = <<>> THEN FALSE
    ELSE IF a = <<>> THEN TRUE
    ELSE IF Head(a) = Head(b) THEN StrLess(Tail(a), Tail(b))
    ELSE Ord(Head(a)) < Ord(Head(b))

\* A metric value as a fraction <<numerator, denominator>>, denominator > 0.
Frac(c) == <<c.v, 1>>

FracLess(a, b) == a[1] * b[2] < b[1] * a[2]

FracEq(a, b) == a[1] * b[2] = b[1] * a[2]

RECURSIVE SeqSum(_)
SeqSum(xs) == IF xs = <<>> THEN 0 ELSE Head(xs) + SeqSum(Tail(xs))

\* Series.mean(): NaN over no rows.
Mean(xs) == IF xs = <<>> THEN NaN ELSE [t |-> "frac", f |-> <<SeqSum(xs), Len(xs)>>]

Column(rows, j) == [i \in 1..Len(rows) |-> rows[i][j]]

NumColumn(rows, j) == [i \in 1..Len(rows) |-> rows[i][j].v]

\* Series.unique(): distinct values in order of first appearance.
RECURSIVE unique(_)
unique(xs) ==
    IF xs = <<>> THEN <<>>
    ELSE LET init == unique(SubSeq(xs, 1, Len(xs) - 1))
             last == xs[Len(xs)]
         IN IF \E i \in DOMAIN init : init[i] = last THEN init ELSE Append(init, last)

Range(xs) == {xs[i] : i \in DOMAIN xs}

\* The stable ascending argsort numpy runs on short arrays (insertion sort):
\* index i goes after every index already placed whose key is not greater.
RECURSIVE InsertIdx(_, _, _)
InsertIdx(sorted, keys, i) ==
    IF sorted = <<>> THEN <<i>>
    ELSE LET last == sorted[Len(sorted)]
         IN IF FracLess(keys[i], keys[last])
            THEN Append(InsertIdx(SubSeq(sorted, 1, Len(sorted) - 1), keys, i), last)
            ELSE Append(sorted, i)

RECURSIVE argsort(_, _)
argsort(keys, n) ==
    IF n = 0 THEN <<>> ELSE InsertIdx(argsort(keys, n - 1), keys, n)

Reverse(xs) == [i \in 1..Len(xs) |-> xs[Len(xs) + 1 - i]]

\* Mutant of nargsort_desc: ascending=False is left out.
nargsort_asc(keys) == argsort(keys, Len(keys))

\* pandas nargsort(ascending=False), which sort_values runs: reverse the
\* items, argsort them ascending, reverse the indexer.
nargsort_desc(keys) ==
    LET n == Len(keys)
        idx == argsort(Reverse(keys), n)
    IN Reverse([i \in 1..n |-> n + 1 - idx[i]])

Take(xs, idx) == [i \in 1..Len(idx) |-> xs[idx[i]]]

\* DataFrame.sort_values(column, ascending=False) on a numeric column.
sort_values_desc(rows, j) ==
    Take(rows, nargsort_desc([i \in 1..Len(rows) |-> Frac(rows[i][j])]))

TopN == 5

\* DataFrame.head(5)
head(xs) == SubSeq(xs, 1, IF Len(xs) < TopN THEN Len(xs) ELSE TopN)

\* groupby keys: the distinct authors in ascending order (sort=True).
RECURSIVE SortedKeys(_)
SortedKeys(S) ==
    IF S = {} THEN <<>>
    ELSE LET m == CHOOSE x \in S : \A y \in S \ {x} : StrLess(x, y)
         IN <<m>> \o SortedKeys(S \ {m})

\* df.groupby(author).agg(sum, mean) of the two per-half-day metrics,
\* one summary row per author, authors ascending.
groupby_author(rows, a, phd, prh) ==
    LET keys == SortedKeys({rows[i][a].s : i \in DOMAIN rows})
        grp(k) == LET is(r) == r[a].s = k IN SelectSeq(rows, is)
    IN [i \in 1..Len(keys) |->
          LET g == grp(keys[i])
          IN [author |-> keys[i],
              total_points |-> <<SeqSum(NumColumn(g, phd)), 1>>,
              avg_points |-> <<SeqSum(NumColumn(g, phd)), Len(g)>>,
              total_procedures |-> <<SeqSum(NumColumn(g, prh)), 1>>,
              avg_procedures |-> <<SeqSum(NumColumn(g, prh)), Len(g)>>]]

\* provider_summary.sort_values(metric, ascending=False) on summary rows.
sort_summary_desc(summary, keys) == Take(summary, nargsort_desc(keys))

by_total_points(summary) ==
    sort_summary_desc(summary, [i \in DOMAIN summary |-> summary[i].total_points])

by_avg_points(summary) ==
    sort_summary_desc(summary, [i \in DOMAIN summary |-> summary[i].avg_points])

by_total_procedures(summary) ==
    sort_summary_desc(summary, [i \in DOMAIN summary |-> summary[i].total_procedures])

by_avg_procedures(summary) ==
    sort_summary_desc(summary, [i \in DOMAIN summary |-> summary[i].avg_procedures])

\* Day numbers of the (normalized, non-null) date column.
Days(rows, d) == {rows[i][d].d : i \in DOMAIN rows}

MaxOf(S) == CHOOSE x \in S : \A y \in S : y <= x

MinOf(S) == CHOOSE x \in S : \A y \in S : x <= y

\* df[df[date] == pd.Timestamp(max_date)]
select_date(rows, d, day) ==
    LET is(r) == r[d] = Ts(day, 0) IN SelectSeq(rows, is)

\* df[df[date].between(lo, hi)], both ends included.
select_between(rows, d, lo, hi) ==
    LET is(r) == lo <= r[d].d /\ r[d].d <= hi IN SelectSeq(rows, is)

\* Mutant of select_contains: the author column is lowered in place before
\* the match, so the selected rows are edited copies.
select_contains_lowering(rows, a, term) ==
    LET is(r) == str_contains(r[a].s, term)
        lowered(r) == [r EXCEPT ![a] = Str(str_lower(r[a].s))]
        hit == SelectSeq(rows, is)
    IN [i \in 1..Len(hit) |-> lowered(hit[i])]

\* df[df[author].str.contains(term, case=False)]
select_contains(rows, a, term) ==
    LET is(r) == str_contains(r[a].s, term) IN SelectSeq(rows, is)

\* df[df[author].isin(selected)]
select_isin(rows, a, selected) ==
    LET is(r) == r[a].s \in selected IN SelectSeq(rows, is)

(***************************************************************************)
(* State                                                                   *)
(***************************************************************************)
VARIABLES
    app,        \* which script serves the page: "app" (app.py) or "rvu" (rvu.py)
    file,       \* what is stored at FILE_STORAGE_PATH
    cache,      \* st.cache_data's entry for load_data(FILE_STORAGE_PATH)
    pc,         \* position of the current script run
    df,         \* main's local df in the current run
    loadCalls,  \* calls of load_data made by the current run
    shown,      \* elements the current run has put on the page, in order
    view,       \* what the tab rendered last holds
    fin,        \* input of the function under study (function specifications)
    fout,       \* its result
    fpc         \* "in" before the function is applied, "out" after

vars == <<app, file, cache, pc, df, loadCalls, shown, view, fin, fout, fpc>>

mainVars == <<app, file, cache, pc, df, loadCalls, shown, view>>

funVars == <<fin, fout, fpc>>

(***************************************************************************)
(* Inputs                                                                  *)
(***************************************************************************)
MaxRows == 2

MaxDay == 3

SeqsUpTo(S, n) == UNION {[1..k -> S] : k \in 0..n}

Padded(s) == <<" ">> \o s \o <<" ">>

Shout(s) == [i \in 1..Len(s) |-> ToUpper(s[i])]

\* Header rows, columns in the order date, author, procedure, points,
\* shift, points/half day, procedure/half.
HeadersPlain ==
    <<str_title(K_date), str_title(K_author), str_title(K_procedure),
      str_title(K_points), str_title(K_shift), str_title(K_phd), str_title(K_prh)>>

HeadersMessy ==
    <<Padded(Shout(K_date)), K_author, str_title(K_procedure),
      Padded(K_points), Shout(K_shift), str_title(K_phd), Padded(str_title(K_prh))>>

\* No shift column: the fifth column is named Site.
HeadersNoShift == [HeadersPlain EXCEPT ![5] = <<"S","i","t","e">>]

MkRow(date, author, phd, prh) ==
    <<date, author, Num(1), Num(1), Num(1), phd, prh>>

Text_x == Str(<<"x">>)

Raw_amy == Str(<<" ","a","m","y">>)

Raw_zed == Str(<<"Z","E","D">>)

MainRows ==
    {MkRow(Ts(1, 0), Raw_amy, Num(1), Num(1)),
     MkRow(Ts(MaxDay, 1), Raw_zed, Num(1), Text_x),
     MkRow(Text_x, Raw_amy, Num(2), Num(1))}

Garbage == [kind |-> "garbage"]

NoUpload == [kind |-> "none"]

\* What st.file_uploader may return: nothing, bytes that are no workbook,
\* or a workbook.
Uploads ==
    {NoUpload, Garbage}
        \cup {Xlsx(HeadersMessy, rows) : rows \in SeqsUpTo(MainRows, MaxRows)}
        \cup {Xlsx(HeadersNoShift, rows) : rows \in SeqsUpTo(MainRows, 1)}

\* How DataFrame.to_excel(FILE_STORAGE_PATH) may end: written; refused
\* before the file is opened; failed after the file was truncated, with
\* nothing usable left; failed part-way, the rows written so far saved.
WriteOutcomes == {"written", "refused", "truncated", "partial"}

SearchTerms == {<<>>, <<"a">>, <<"q">>}

\* What st.date_input may return within [lo, hi]: one date or two.
DateInputs(lo, hi) ==
    {<<a>> : a \in lo..hi} \cup {<<a, b>> : a \in lo..hi, b \in lo..hi}

NoEntry == [kind |-> "empty"]

NoView == [tab |-> "none"]

(***************************************************************************)
(* main                                                                    *)
(***************************************************************************)
MainInit ==
    /\ app \in {"app", "rvu"}
    /\ file \in {Absent, Corrupt}
    /\ cache = NoEntry
    /\ pc = "idle"
    /\ df = None
    /\ loadCalls = 0
    /\ shown = <<>>
    /\ view = NoView

FunIdle == fin = <<>> /\ fout = <<>> /\ fpc = "off"

Init == MainInit /\ FunIdle

\* What try: pd.read_excel(uploaded_file).to_excel(FILE_STORAGE_PATH) leaves
\* at FILE_STORAGE_PATH and shows.
store_upload(old, up, w) ==
    CASE up = NoUpload -> [file |-> old, shown |-> <<>>]
      [] up = Garbage -> [file |-> old, shown |-> <<"error:upload_failed">>]
      [] up.kind = "xlsx" /\ w = "written" ->
            [file |-> Xlsx(up.columns, up.rows), shown |-> <<"success:uploaded">>]
      [] up.kind = "xlsx" /\ w = "refused" ->
            [file |-> old, shown |-> <<"error:upload_failed">>]
      [] up.kind = "xlsx" /\ w = "truncated" ->
            [file |-> Corrupt, shown |-> <<"error:upload_failed">>]
      [] OTHER ->
            [file |-> Xlsx(up.columns, SubSeq(up.rows, 1, Len(up.rows) - 1)),
             shown |-> <<"error:upload_failed">>]

\* A script run starts: the sidebar and the upload handling.
HandleUpload ==
    /\ pc = "idle"
    /\ \E up \in Uploads, w \in WriteOutcomes :
         /\ (up.kind # "xlsx" => w = "written")
         /\ (w = "partial" => Len(up.rows) > 0)
         /\ LET r == store_upload(file, up, w)
            IN file' = r.file /\ shown' = r.shown
    /\ pc' = "load"
    /\ UNCHANGED <<app, cache, df, loadCalls, view, funVars>>

\* @st.cache_data: the entry is keyed by the function and its argument, the
\* path string, which never changes; a hit returns the stored value and
\* replays the stored st.error elements.
cached_load_data(c, f) ==
    IF c = NoEntry
    THEN LET r == load_data(f)
         IN [cache |-> [kind |-> "entry", ret |-> r.ret, errors |-> r.errors],
             ret |-> r.ret, errors |-> r.errors]
    ELSE [cache |-> c, ret |-> c.ret, errors |-> c.errors]

date_of(d) == col_map(d.columns, K_date)

author_of(d) == col_map(d.columns, K_author)

phd_of(d) == col_map(d.columns, K_phd)

prh_of(d) == col_map(d.columns, K_prh)

min_date(d) == MinOf(Days(d.rows, date_of(d)))

max_date(d) == MaxOf(Days(d.rows, date_of(d)))

\* df = load_data(FILE_STORAGE_PATH) if os.path.exists(...) else None, the
\* upload prompt, and the page header.
LoadData ==
    /\ pc = "load"
    /\ LET r == IF file = Absent
                THEN [cache |-> cache, ret |-> None, errors |-> <<>>]
                ELSE cached_load_data(cache, file)
       IN /\ cache' = r.cache
          /\ df' = r.ret
          /\ loadCalls' = IF file = Absent THEN 0 ELSE loadCalls + 1
          /\ IF r.ret = None
             THEN /\ shown' = shown \o r.errors \o <<"info:upload_prompt">>
                  /\ pc' = "done"
             ELSE IF r.ret.rows = <<>>
             \* min() and max() of no dates are NaT, and NaT.strftime raises.
             THEN /\ shown' = shown \o r.errors \o <<"title", "tabs", "exception">>
                  /\ pc' = "done"
             ELSE /\ shown' = shown \o r.errors \o <<"title", "tabs">>
                  /\ pc' = "tab1"
    /\ UNCHANGED <<app, file, view, funVars>>

\* app.py, tab1: the latest day's rows, the provider search, the metrics,
\* the two sorted bar charts and the table.
daily_view(d, term) ==
    LET a == author_of(d)
        df_latest == select_date(d.rows, date_of(d), max_date(d))
        filtered_latest ==
            IF term # <<>> THEN select_contains(df_latest, a, term) ELSE df_latest
    IN IF df_latest = <<>>
       THEN [tab |-> "daily", rows |-> <<>>, elements |-> <<>>]
       ELSE [tab |-> "daily",
             rows |-> filtered_latest,
             elements |-> <<"metrics", "charts", "table">>,
             providers |-> Len(unique(Column(filtered_latest, a))),
             avg_points |-> Mean(NumColumn(filtered_latest, phd_of(d))),
             avg_procedures |-> Mean(NumColumn(filtered_latest, prh_of(d))),
             bars_points |-> sort_values_desc(filtered_latest, phd_of(d)),
             bars_procedures |-> sort_values_desc(filtered_latest, prh_of(d))]

AppDaily ==
    /\ pc = "tab1" /\ app = "app"
    /\ \E term \in SearchTerms :
         /\ view' = daily_view(df, term)
         /\ shown' = shown \o <<"daily">>
    /\ pc' = "tab2"
    /\ UNCHANGED <<app, file, cache, df, loadCalls, funVars>>

\* app.py, tab2: the date range, the trend line, the provider summary and
\* its four top-5 charts. st.stop() ends the run.
trends_view(d, dates) ==
    IF Len(dates) # 2 \/ dates[1] > dates[2]
    THEN [tab |-> "trends", rows |-> <<>>, elements |-> <<"error:invalid_dates">>]
    ELSE
      LET df_range == select_between(d.rows, date_of(d), dates[1], dates[2])
          provider_summary ==
              groupby_author(df_range, author_of(d), phd_of(d), prh_of(d))
      IN IF df_range = <<>>
         THEN [tab |-> "trends", rows |-> <<>>, elements |-> <<"warning:no_data">>]
         ELSE [tab |-> "trends",
               rows |-> df_range,
               elements |-> <<"line", "leaders">>,
               summary |-> provider_summary,
               top_total_points |-> head(by_total_points(provider_summary)),
               top_avg_points |-> head(by_avg_points(provider_summary)),
               top_total_procedures |-> head(by_total_procedures(provider_summary)),
               top_avg_procedures |-> head(by_avg_procedures(provider_summary))]

Stopped(v) ==
    \E i \in DOMAIN v.elements :
        v.elements[i] \in {"error:invalid_dates", "warning:no_data"}

AppTrends ==
    /\ pc = "tab2" /\ app = "app"
    /\ \E dates \in DateInputs(min_date(df), max_date(df)) :
         /\ view' = trends_view(df, dates)
         /\ shown' = shown \o <<"trends">>
    /\ pc' = IF Stopped(view') THEN "done" ELSE "tab3"
    /\ UNCHANGED <<app, file, cache, df, loadCalls, funVars>>

\* app.py, tab3: date range and provider filter, the metrics, the two
\* average bars and the searchable detail table.
provider_view(d, prov_dates, selected_providers, term) ==
    IF Len(prov_dates) < 2
    THEN [tab |-> "provider", rows |-> <<>>, elements |-> <<"error:invalid_dates">>]
    ELSE
      LET a == author_of(d)
          prov_filtered ==
              select_isin(
                  select_between(d.rows, date_of(d), prov_dates[1], prov_dates[2]),
                  a, selected_providers)
          means == groupby_author(prov_filtered, a, phd_of(d), prh_of(d))
      IN IF prov_filtered = <<>>
         THEN [tab |-> "provider", rows |-> <<>>, elements |-> <<"warning:no_data">>]
         ELSE [tab |-> "provider",
               rows |-> prov_filtered,
               elements |-> <<"metrics", "charts", "table">>,
               total_days |-> Len(prov_filtered),
               avg_points |-> Mean(NumColumn(prov_filtered, phd_of(d))),
               avg_procedures |-> Mean(NumColumn(prov_filtered, prh_of(d))),
               peak_points |-> MaxOf(Range(NumColumn(prov_filtered, phd_of(d)))),
               bars_points |-> by_avg_points(means),
               bars_procedures |-> by_avg_procedures(means),
               final_data |->
                   IF term # <<>> THEN select_contains(prov_filtered, a, term)
                   ELSE prov_filtered]

AppProvider ==
    /\ pc = "tab3" /\ app = "app"
    /\ \E prov_dates \in DateInputs(min_date(df), max_date(df)),
          selected_providers \in SUBSET Range(unique(Column(df.rows, author_of(df)))),
          term \in SearchTerms :
         /\ view' = provider_view(df, prov_dates,
                                  {x.s : x \in selected_providers}, term)
         /\ shown' = shown \o <<"provider">>
    /\ pc' = "done"
    /\ UNCHANGED <<app, file, cache, df, loadCalls, funVars>>

\* rvu.py, tab1: the latest day's rows, the provider multiselect, the two
\* sorted bar charts and the table.
rvu_daily_view(d, selected_providers) ==
    LET a == author_of(d)
        df_latest == select_date(d.rows, date_of(d), max_date(d))
        filtered_latest ==
            IF selected_providers # {}
            THEN select_isin(df_latest, a, selected_providers) ELSE df_latest
    IN IF df_latest = <<>>
       THEN [tab |-> "daily", rows |-> <<>>, elements |-> <<>>]
       ELSE [tab |-> "daily",
             rows |-> filtered_latest,
             elements |-> <<"charts", "table">>,
             bars_points |-> sort_values_desc(filtered_latest, phd_of(d)),
             bars_procedures |-> sort_values_desc(filtered_latest, prh_of(d))]

RvuDaily ==
    /\ pc = "tab1" /\ app = "rvu"
    /\ LET latest == select_date(df.rows, date_of(df), max_date(df))
       IN \E selected_providers \in SUBSET Range(Column(latest, author_of(df))) :
            /\ view' = rvu_daily_view(df, {x.s : x \in selected_providers})
            /\ shown' = shown \o <<"daily">>
    /\ pc' = "tab2"
    /\ UNCHANGED <<app, file, cache, df, loadCalls, funVars>>

\* rvu.py, tab2: the date range, the provider multiselect, the trend line,
\* the per-provider means and their two sorted bar charts, the table.
rvu_trends_view(d, dates, selected) ==
    IF Len(dates) # 2 \/ dates[1] > dates[2]
    THEN [tab |-> "trends", rows |-> <<>>, elements |-> <<"error:invalid_dates">>]
    ELSE
      LET a == author_of(d)
          df_range == select_between(d.rows, date_of(d), dates[1], dates[2])
          chosen == selected \cap {df_range[i][a].s : i \in DOMAIN df_range}
          df_filtered_trend ==
              IF chosen # {} THEN select_isin(df_range, a, chosen) ELSE df_range
          provider_summary ==
              groupby_author(df_filtered_trend, a, phd_of(d), prh_of(d))
      IN IF df_range = <<>>
         THEN [tab |-> "trends", rows |-> <<>>, elements |-> <<"warning:no_data">>]
         ELSE [tab |-> "trends",
               rows |-> df_filtered_trend,
               elements |-> <<"line", "charts", "table">>,
               summary |-> provider_summary,
               bars_points |-> by_avg_points(provider_summary),
               bars_procedures |-> by_avg_procedures(provider_summary)]

RvuTrends ==
    /\ pc = "tab2" /\ app = "rvu"
    /\ \E dates \in DateInputs(min_date(df), max_date(df)),
          selected \in SUBSET Range(Column(df.rows, author_of(df))) :
         /\ view' = rvu_trends_view(df, dates, {x.s : x \in selected})
         /\ shown' = shown \o <<"trends">>
    /\ pc' = "done"
    /\ UNCHANGED <<app, file, cache, df, loadCalls, funVars>>

\* The next interaction re-runs the script: the page is cleared and main
\* starts again with fresh locals.
Rerun ==
    /\ pc = "done"
    /\ pc' = "idle"
    /\ df' = None
    /\ loadCalls' = 0
    /\ shown' = <<>>
    /\ view' = NoView
    /\ UNCHANGED <<app, file, cache, funVars>>

Next ==
    \/ HandleUpload
    \/ LoadData
    \/ AppDaily
    \/ AppTrends
    \/ AppProvider
    \/ RvuDaily
    \/ RvuTrends
    \/ Rerun

Spec == Init /\ [][Next]_vars

(***************************************************************************)
(* Properties of main                                                      *)
(***************************************************************************)
Shown(tag) == \E i \in DOMAIN shown : shown[i] = tag

HasElement(v, tag) == \E i \in DOMAIN v.elements : v.elements[i] = tag

Loaded == pc \in {"tab1", "tab2", "tab3", "done"}

\* The required columns a header row lacks, compared case-insensitively
\* after stripping the header cells.
LacksColumns(f) ==
    {k \in REQUIRED_COLUMNS :
        \A i \in DOMAIN f.columns : str_lower(str_strip(f.columns[i])) # k}

\* C1: whenever the stored spreadsheet lacks a required column, the run
\* shows a load error, main's df is None, and the run ends at the upload
\* prompt with no title, tab, metric, chart or table rendered.
C1_SchemaErrorBlocks ==
    (Loaded /\ file.kind = "xlsx" /\ LacksColumns(file) # {}) =>
        /\ df = None
        /\ pc = "done"
        /\ Shown("error:missing_columns") \/ Shown("error:exception")
        /\ shown[Len(shown)] = "info:upload_prompt"
        /\ ~Shown("tabs")

\* C2: in every run, what load_data(FILE_STORAGE_PATH) hands to main is what
\* an un-memoized parse of the file now stored would return.
C2_MemoizedEqualsFresh ==
    (Loaded /\ loadCalls > 0) => df = load_data(file).ret

\* C4: whenever the records to display are empty (the loaded dataset has no
\* rows, or a tab's filter selects none), the run shows a no-data message
\* for that view, raises no exception and shows no statistic over no rows.
C4_EmptyIsNoData ==
    /\ (Loaded /\ df # None /\ df.rows = <<>>) =>
          /\ ~Shown("exception")
          /\ Shown("warning:no_data")
    /\ (view.tab # "none" /\ view.rows = <<>>
            /\ ~HasElement(view, "error:invalid_dates")) =>
          /\ HasElement(view, "warning:no_data")
          /\ ~HasElement(view, "metrics")

\* C5: in a run where the stored file is missing or is no workbook,
\* load_data is called at most once, nothing propagates out of it, main's
\* df is None and the run ends at the upload prompt.
C5_UnreachableSourcePrompts ==
    (Loaded /\ file \in {Absent, Corrupt}) =>
        /\ loadCalls <= 1
        /\ df = None
        /\ pc = "done"
        /\ ~Shown("exception")
        /\ shown[Len(shown)] = "info:upload_prompt"

\* The upload step of a run ended in its except branch.
UploadFailed == pc = "load" /\ shown = <<"error:upload_failed">>

\* C11: a failed upload changes nothing. When the upload step ends by
\* reporting "Upload failed", FILE_STORAGE_PATH holds exactly what it held
\* before the run, and the run's next step hands main the dataset parsed
\* from that file, or None and the upload prompt when there is none.
C11_FailedUploadChangesNothing ==
    [][/\ (pc = "idle" /\ UploadFailed') => file' = file
       /\ (UploadFailed /\ pc' # "load") =>
             /\ file' = file
             /\ df' = (IF file = Absent THEN None ELSE load_data(file).ret)
             /\ df' = None => shown'[Len(shown')] = "info:upload_prompt"]_vars

RECURSIVE IsSubSeq(_, _)
IsSubSeq(a, b) ==
    IF a = <<>> THEN TRUE
    ELSE IF b = <<>> THEN FALSE
    ELSE IF Head(a) = Head(b) THEN IsSubSeq(Tail(a), Tail(b))
    ELSE IsSubSeq(a, Tail(b))

\* The record tables a view holds.
ViewTables(v) ==
    (IF v.tab # "none" THEN {v.rows} ELSE {})
        \cup (IF v.tab = "provider" /\ HasElement(v, "table") THEN {v.final_data} ELSE {})

\* The sorted record tables a view holds (the Daily bar charts).
ViewSorted(v) ==
    IF v.tab = "daily" /\ HasElement(v, "charts")
    THEN {v.bars_points, v.bars_procedures} ELSE {}

\* C6: every filter of main yields rows of the loaded dataset, unchanged
\* and in their order (a sorted chart holds the filtered rows reordered),
\* and the loaded dataset stays what load_data memoized.
C6_FiltersOnlySelect ==
    (Loaded /\ df # None) =>
        /\ cache.ret = df
        /\ \A t \in ViewTables(view) : IsSubSeq(t, df.rows)
        /\ \A t \in ViewSorted(view) :
              /\ Len(t) = Len(view.rows)
              /\ \A r \in Range(t) :
                    Cardinality({i \in DOMAIN t : t[i] = r})
                        = Cardinality({i \in DOMAIN view.rows : view.rows[i] = r})

\* C6 witness: a Provider Analytics filter has selected some but not all
\* rows of a dataset of several rows.
C6_Witness ==
    /\ pc = "done" /\ view.tab = "provider"
    /\ 0 < Len(view.rows) /\ Len(view.rows) < Len(df.rows)

(***************************************************************************)
(* load_data as a function of the stored file                              *)
(***************************************************************************)
MainOff ==
    /\ app = "app" /\ file = Absent /\ cache = NoEntry /\ pc = "off"
    /\ df = None /\ loadCalls = 0 /\ shown = <<>> /\ view = NoView

MaxLoadRows == 2

LoadRows ==
    {MkRow(date, author, phd, Num(1)) :
        date \in {Ts(1, 0), Ts(2, 1), Text_x, Num(5)},
        author \in {Raw_amy, NaN},
        phd \in {Num(2), Text_x, NaN}}

LoadInputs ==
    {Corrupt}
        \cup {Xlsx(h, rows) :
                h \in {HeadersPlain, HeadersMessy, HeadersNoShift},
                rows \in SeqsUpTo(LoadRows, MaxLoadRows)}

InitLoad == MainOff /\ fin \in LoadInputs /\ fout = <<>> /\ fpc = "in"

ApplyLoad ==
    /\ fpc = "in"
    /\ fout' = load_data(fin)
    /\ fpc' = "out"
    /\ UNCHANGED <<mainVars, fin>>

NextLoad == ApplyLoad

SpecLoad == InitLoad /\ [][NextLoad]_vars

SchemaOk(f) == f.kind = "xlsx" /\ LacksColumns(f) = {}

\* C3 as stated: a field that fails to coerce never costs the row, so the
\* returned dataset has as many rows as the source.
C3_NoRecordDropped ==
    (fpc = "out" /\ SchemaOk(fin)) =>
        /\ fout.ret # None
        /\ Len(fout.ret.rows) = Len(fin.rows)

\* Whether a source date cell coerces to a timestamp.
DateCoerces(c) == c.t \in {"ts", "num"}

\* C3 amended: a numeric metric cell that fails to coerce becomes 0 and its
\* row is kept; a row is dropped exactly when its date cell fails to
\* coerce; the kept rows keep their order, so the returned row count is the
\* number of source rows whose date coerces.
C3_RowsKeptUnlessDateFails ==
    (fpc = "out" /\ SchemaOk(fin)) =>
        LET kept == {i \in DOMAIN fin.rows : DateCoerces(fin.rows[i][1])}
            pos(i) == Cardinality({j \in kept : j <= i})
        IN /\ fout.ret # None
           /\ Len(fout.ret.rows) = Cardinality(kept)
           /\ \A i \in kept : \A j \in 3..7 :
                 fout.ret.rows[pos(i)][j] =
                     IF fin.rows[i][j].t = "num" THEN fin.rows[i][j] ELSE Num(0)

\* C3 witness: of two source rows, one with an unparseable date was
\* dropped and one with an unparseable metric was kept with 0.
C3_Witness ==
    /\ fpc = "out" /\ SchemaOk(fin)
    /\ Len(fin.rows) = 2 /\ Len(fout.ret.rows) = 1
    /\ \E i \in DOMAIN fin.rows :
          /\ DateCoerces(fin.rows[i][1])
          /\ fin.rows[i][6] = Text_x
          /\ fout.ret.rows[1][6] = Num(0)

(***************************************************************************)
(* Author names at ingestion                                               *)
(***************************************************************************)
MaxNameLen == 3

NameChars == {"a", "A", " "}

\* Pairs of raw author values, the second up to one character longer.
NameInputs ==
    {<<a, b>> : a \in SeqsUpTo(NameChars, MaxNameLen),
                b \in SeqsUpTo(NameChars, MaxNameLen + 1)}

InitName == MainOff /\ fin \in NameInputs /\ fout = <<>> /\ fpc = "in"

\* Two rows whose author cells are the two names, loaded and grouped.
ApplyName ==
    /\ fpc = "in"
    /\ LET rows == <<MkRow(Ts(1, 0), Str(fin[1]), Num(1), Num(1)),
                     MkRow(Ts(1, 0), Str(fin[2]), Num(1), Num(1))>>
           d == load_data(Xlsx(HeadersPlain, rows)).ret
       IN fout' = [names |-> Column(d.rows, author_of(d)),
                   groups |-> groupby_author(d.rows, author_of(d), phd_of(d), prh_of(d))]
    /\ fpc' = "out"
    /\ UNCHANGED <<mainVars, fin>>

NextName == ApplyName

SpecName == InitName /\ [][NextName]_vars

\* Runs of inner whitespace collapsed to one space.
RECURSIVE Collapse(_)
Collapse(s) ==
    IF Len(s) < 2 THEN s
    ELSE IF s[1] \in Whitespace /\ s[2] \in Whitespace THEN Collapse(<<" ">> \o SubSeq(s, 3, Len(s)))
    ELSE <<IF s[1] \in Whitespace THEN " " ELSE s[1]>> \o Collapse(Tail(s))

Idempotent ==
    \A i \in DOMAIN fout.names : format_author(fout.names[i]) = fout.names[i]

\* C8 as stated: two author values that differ only in letter case or in
\* whitespace get the same provider name and one group; a normalized name
\* normalizes to itself.
C8_CaseAndWhitespaceNormalized ==
    fpc = "out" =>
        /\ Collapse(str_strip(str_lower(fin[1]))) = Collapse(str_strip(str_lower(fin[2]))) =>
              fout.names[1] = fout.names[2] /\ Len(fout.groups) = 1
        /\ Idempotent

\* C8 amended: two author values that differ only in letter case or in
\* leading and trailing whitespace get the same provider name and one
\* group; a normalized name normalizes to itself.
C8_CaseAndOuterWhitespaceNormalized ==
    fpc = "out" =>
        /\ str_strip(str_lower(fin[1])) = str_strip(str_lower(fin[2])) =>
              fout.names[1] = fout.names[2] /\ Len(fout.groups) = 1
        /\ Idempotent

\* C8 witness: two values of different case and different outer whitespace
\* were given one name.
C8_Witness ==
    /\ fpc = "out"
    /\ Len(fin[1]) # Len(fin[2])
    /\ str_strip(fin[1]) # str_strip(fin[2])
    /\ str_strip(fin[1]) # <<>>
    /\ fout.names[1] = fout.names[2]
    /\ Len(fout.groups) = 1

(***************************************************************************)
(* The sorted per-provider summaries                                       *)
(***************************************************************************)
MaxRecords == 3

Name_amy == Str(<<"A","m","y">>)

Name_bob == Str(<<"B","o","b">>)

Name_zed == Str(<<"Z","e","d">>)

\* Loaded records of one day: normalized names, numeric metrics.
SummaryRows ==
    {MkRow(Ts(1, 0), author, phd, prh) :
        author \in {Name_amy, Name_bob, Name_zed},
        phd \in {Num(1), Num(2)},
        prh \in {Num(0), Num(1)}}

SummaryInputs ==
    {DataFrame(HeadersPlain, rows) : rows \in SeqsUpTo(SummaryRows, MaxRecords) \ {<<>>}}

InitSummary == MainOff /\ fin \in SummaryInputs /\ fout = <<>> /\ fpc = "in"

\* The three places that sort a per-provider summary, over the whole date
\* range and every provider: app.py's Trends and Provider Analytics tabs,
\* rvu.py's Trend Analysis tab.
ApplySummary ==
    /\ fpc = "in"
    /\ LET everyone == {fin.rows[i][author_of(fin)].s : i \in DOMAIN fin.rows}
           dates == <<min_date(fin), max_date(fin)>>
       IN fout' = [trends |-> trends_view(fin, dates),
                   provider |-> provider_view(fin, dates, everyone, <<>>),
                   rvu |-> rvu_trends_view(fin, dates, {})]
    /\ fpc' = "out"
    /\ UNCHANGED <<mainVars, fin>>

NextSummary == ApplySummary

SpecSummary == InitSummary /\ [][NextSummary]_vars

\* The sorted summaries of a result, each with the metric it is sorted by.
SortedSummaries(o) ==
    {<<o.trends.top_total_points, "total_points">>,
     <<o.trends.top_avg_points, "avg_points">>,
     <<o.trends.top_total_procedures, "total_procedures">>,
     <<o.trends.top_avg_procedures, "avg_procedures">>,
     <<o.provider.bars_points, "avg_points">>,
     <<o.provider.bars_procedures, "avg_procedures">>,
     <<o.rvu.bars_points, "avg_points">>,
     <<o.rvu.bars_procedures, "avg_procedures">>}

Descending(t, m) ==
    \A i \in DOMAIN t : \A j \in DOMAIN t : i < j => ~FracLess(t[i][m], t[j][m])

FirstOccurrence(rows, name) ==
    MinOf({i \in DOMAIN rows : rows[i][2].s = name})

TiesByFirstOccurrence(t, m, rows) ==
    \A i \in DOMAIN t : \A j \in DOMAIN t :
        (i < j /\ FracEq(t[i][m], t[j][m])) =>
            FirstOccurrence(rows, t[i].author) < FirstOccurrence(rows, t[j].author)

DigitChars == <<"0","1","2","3","4","5","6","7","8","9">>

IsDigit(c) == \E i \in DOMAIN DigitChars : DigitChars[i] = c

DigitValue(c) == (CHOOSE i \in DOMAIN DigitChars : DigitChars[i] = c) - 1

IsNumber(s) == s # <<>> /\ \A i \in DOMAIN s : IsDigit(s[i])

RECURSIVE NumberValue(_)
NumberValue(s) ==
    IF s = <<>> THEN 0
    ELSE 10 * NumberValue(SubSeq(s, 1, Len(s) - 1)) + DigitValue(s[Len(s)])

\* The fields of s between occurrences of a separator character.
RECURSIVE Split(_, _)
Split(s, seps) ==
    IF \A i \in DOMAIN s : s[i] \notin seps THEN <<s>>
    ELSE LET k == CHOOSE i \in DOMAIN s :
                      s[i] \in seps /\ \A j \in 1..(i - 1) : s[j] \notin seps
         IN <<SubSeq(s, 1, k - 1)>> \o Split(SubSeq(s, k + 1, Len(s)), seps)

\* A raw duration: null, text, or an already-typed duration in seconds.
Null == [t |-> "null"]

Dur(secs) == [t |-> "dur", secs |-> secs]

Unknown == [known |-> FALSE]

\* A known duration of secs seconds, in minutes, as the fraction secs/60.
Known(secs) == [known |-> TRUE, minutes |-> <<secs, 60>>]

\* Step 2: the closed table of free-text synonyms, in minutes.
Synonym(s) ==
    CASE s = <<"a","n"," ","h","o","u","r">> -> 60
      [] s = <<"a"," ","d","a","y">> -> 1440
      [] OTHER -> -1

\* Mutant of DayMinutes: a day counted as 24 minutes.
DayMinutesShort(d) == d * 24

\* Step 3: the day component contributes D x 1440 minutes.
DayMinutes(d) == d * 1440

\* Steps 3 and 4: a clock string, optionally prefixed with a day count and
\* "." or " "; the seconds it denotes, or -1 when the shape is not a clock.
ClockSeconds(s) ==
    LET f == Split(s, {":"})
    IN IF Len(f) # 3 \/ ~IsNumber(f[2]) \/ ~IsNumber(f[3])
          \/ Len(f[2]) # 2 \/ Len(f[3]) # 2
       THEN -1
       ELSE LET h == Split(f[1], {".", " "})
                tail == NumberValue(f[2]) * 60 + NumberValue(f[3])
            IN IF Len(h) = 1 /\ IsNumber(h[1]) /\ Len(h[1]) <= 2
               THEN NumberValue(h[1]) * 3600 + tail
               ELSE IF Len(h) = 2 /\ IsNumber(h[1]) /\ IsNumber(h[2]) /\ Len(h[2]) = 2
               THEN DayMinutes(NumberValue(h[1])) * 60 + NumberValue(h[2]) * 3600 + tail
               ELSE -1

\* Mutant of NonNegative: the sign is not looked at.
AnySign(secs) == Known(secs)

\* Step 5: a negative duration is unknown.
NonNegative(secs) == IF secs < 0 THEN Unknown ELSE Known(secs)

\* Steps 1 to 5 on one raw value.
normalize_duration(raw) ==
    CASE raw.t = "null" -> Unknown
      [] raw.t = "dur" -> NonNegative(raw.secs)
      [] raw.t = "str" ->
            LET s == str_strip(raw.s)
            IN IF s = <<>> THEN Unknown
               ELSE IF Synonym(str_lower(s)) >= 0 THEN Known(Synonym(str_lower(s)) * 60)
               ELSE IF Head(s) = "-"
               THEN (IF ClockSeconds(Tail(s)) >= 0
                     THEN NonNegative(0 - ClockSeconds(Tail(s))) ELSE Unknown)
               ELSE IF ClockSeconds(s) >= 0 THEN NonNegative(ClockSeconds(s))
               ELSE Unknown
      [] OTHER -> Unknown

MaxDurDays == 12

TwoDigits(n) == <<DigitChars[(n \div 10) + 1], DigitChars[(n % 10) + 1]>>

RECURSIVE Decimal(_)
Decimal(n) ==
    IF n < 10 THEN <<DigitChars[n + 1]>>
    ELSE Decimal(n \div 10) \o <<DigitChars[(n % 10) + 1]>>

\* "H:MM:SS"
ClockText(h, m, sec) == Decimal(h) \o <<":">> \o TwoDigits(m) \o <<":">> \o TwoDigits(sec)

\* "D.HH:MM:SS"
DayClockText(d, h, m, sec) ==
    Decimal(d) \o <<".">> \o TwoDigits(h) \o <<":">> \o TwoDigits(m)
        \o <<":">> \o TwoDigits(sec)

DurHours == {0, 4, 23}

DurMinutes == {0, 6, 59}

DurSeconds == {0, 7, 59}

ClockInputs ==
    {Str(ClockText(h, m, sec)) : h \in DurHours, m \in DurMinutes, sec \in DurSeconds}

DayClockInputs ==
    UNION {{Str(DayClockText(d, h, m, sec)) :
                h \in DurHours, m \in DurMinutes, sec \in DurSeconds} :
           d \in 0..MaxDurDays}

NullInputs == {Null}

BlankInputs == {Str(<<>>), Str(<<" ">>), Str(<<" ", "\t">>)}

UnrecognizedInputs ==
    {Str(<<"s","o","o","n">>), Str(<<"a","n"," ","h","o","u","r","s">>),
     Str(<<"1",":","2">>), Str(<<"1",".","x",":","0","0",":","0","0">>),
     Str(<<":",":">>), Str(<<"-">>), Str(<<"1","2","3">>)}

\* Clock strings of a duration above zero, with a minus sign, and typed
\* durations below zero.
NegativeInputs ==
    {Str(<<"-">> \o ClockText(h, m, sec)) :
        h \in DurHours \ {0}, m \in DurMinutes, sec \in DurSeconds}
        \cup UNION {{Str(<<"-">> \o DayClockText(d, h, m, sec)) :
                        h \in DurHours, m \in DurMinutes, sec \in DurSeconds} :
                    d \in 1..MaxDurDays}
        \cup {Str(<<"-">> \o ClockText(0, 6, 0)), Str(<<"-">> \o ClockText(0, 0, 7))}
        \cup {Dur(0 - n) : n \in 1..MaxDurDays}

SynonymInputs ==
    {Str(<<"a","n"," ","h","o","u","r">>), Str(<<" ","A"," ","D","a","y">>)}

DurInputs ==
    ClockInputs \cup DayClockInputs \cup NullInputs \cup BlankInputs
        \cup UnrecognizedInputs \cup NegativeInputs \cup SynonymInputs
        \cup {Dur(n) : n \in 0..MaxDurDays}

InitDur == MainOff /\ fin \in DurInputs /\ fout = <<>> /\ fpc = "in"

ApplyDur ==
    /\ fpc = "in"
    /\ fout' = normalize_duration(fin)
    /\ fpc' = "out"
    /\ UNCHANGED <<mainVars, fin>>

NextDur == ApplyDur

SpecDur == InitDur /\ [][NextDur]_vars

\* C9: for every input of shape D.HH:MM:SS the normalized duration is
\* D*1440 + H*60 + M + S/60 minutes, and for a plain H:MM:SS string it is
\* H*60 + M + S/60 minutes (the case D = 0).
C9_DayClockMinutes ==
    fpc = "out" =>
        \A d \in 0..MaxDurDays, h \in DurHours, m \in DurMinutes, sec \in DurSeconds :
            /\ fin = Str(DayClockText(d, h, m, sec)) =>
                  /\ fout.known
                  /\ FracEq(fout.minutes, <<(d * 1440 + h * 60 + m) * 60 + sec, 60>>)
            /\ fin = Str(ClockText(h, m, sec)) =>
                  /\ fout.known
                  /\ FracEq(fout.minutes, <<(h * 60 + m) * 60 + sec, 60>>)

\* C9 witness: "1.04:06:07" was normalized to 101167/60 minutes (about
\* 1686.12).
C9_Witness ==
    /\ fpc = "out"
    /\ fin = Str(<<"1",".","0","4",":","0","6",":","0","7">>)
    /\ fout.known
    /\ fout.minutes = <<101167, 60>>

\* C10: a raw duration that is null, blank, unrecognized text or negative
\* normalizes to known = false, and every known normalized duration is a
\* non-negative number of minutes.
C10_UnknownNeverNegative ==
    fpc = "out" =>
        /\ fin \in NullInputs \cup BlankInputs \cup UnrecognizedInputs \cup NegativeInputs
              => ~fout.known
        /\ fout.known => fout.minutes[1] >= 0 /\ fout.minutes[2] > 0

\* C10 witness: a negative day-prefixed clock string came out unknown.
C10_Witness ==
    /\ fpc = "out"
    /\ fin = Str(<<"-">> \o DayClockText(1, 4, 6, 7))
    /\ ~fout.known

====
